---------------------------- MODULE Spec2Model ----------------------------
(***************************************************************************)
(* A model of src/CasingSimulations.py: the graded cylindrical grid of     *)
(* CasingMesh, the grounded source of DownHoleCasingSrc and the casing     *)
(* current extraction of CasingCurrents.                                   *)
(*                                                                         *)
(* Lengths are exact: a length is an integer number of 1/Scale metres, and *)
(* the rescaled radial widths are exact fractions [n, d].  Floating-point  *)
(* rounding is not modelled.                                               *)
(***************************************************************************)
EXTENDS Integers, Sequences, FiniteSets, TLC

VARIABLES cp, cm, cache, ret, first,
          src, dgcache, sel,
          cur, out

vars == <<cp, cm, cache, ret, first, src, dgcache, sel, cur, out>>

\* an attribute that is None is <<>>, one that holds v is <<v>>
None == <<>>

Some(v) == <<v>>

Val(o) == o[1]

(***************************************************************************)
(* Bounds of the model.                                                    *)
(***************************************************************************)
\* lengths are multiples of 1/Scale metres
Scale == 4
\* the padding counts npadzu, npadzd, npadx2 range over 0..MaxPad
MaxPad == 2
\* casing_l ranges over 1..MaxLen metres
MaxLen == 2

(***************************************************************************)
(* Arithmetic helpers.                                                     *)
(***************************************************************************)
Max(a, b) == IF a >= b THEN a ELSE b

Min(a, b) == IF a <= b THEN a ELSE b

Abs(a) == IF a < 0 THEN -a ELSE a

\* np.floor(a/b) for b > 0
FloorDiv(a, b) == a \div b

\* np.ceil(a/b) for b > 0
CeilDiv(a, b) == -((-a) \div b)

RECURSIVE Pow(_, _)
Pow(b, e) == IF e <= 0 THEN 1 ELSE b * Pow(b, e - 1)

RECURSIVE SumSeq(_)
SumSeq(s) == IF s = <<>> THEN 0 ELSE Head(s) + SumSeq(Tail(s))

\* an exact fraction n/d, d > 0
Rat(n, d) == [n |-> n, d |-> d]

RatAdd(a, b) == Rat(a.n * b.d + b.n * a.d, a.d * b.d)

RatEq(a, b) == a.n * b.d = b.n * a.d

RatLess(a, b) == a.n * b.d < b.n * a.d

RatLeq(a, b) == a.n * b.d <= b.n * a.d

RECURSIVE RatSum(_)
RatSum(s) == IF s = <<>> THEN Rat(0, 1) ELSE RatAdd(Head(s), RatSum(Tail(s)))

\* s[:k] of Python, for any integer k
PySlice(s, k) ==
    IF k >= 0 THEN SubSeq(s, 1, Min(k, Len(s)))
    ELSE SubSeq(s, 1, Max(Len(s) + k, 0))

Reverse(s) == [i \in 1..Len(s) |-> s[Len(s) + 1 - i]]

(***************************************************************************)
(* Utils.meshTensor, as CasingMesh calls it.                               *)
(***************************************************************************)
\* meshTensor([(cs, n)]): n cells of width cs; a count n <= 0 gives none
meshTensor2(cs, n) == [i \in 1..Max(n, 0) |-> cs]

\* meshTensor([(cs, n, pf)]): widths cs*|pf|^1 .. cs*|pf|^n, reversed when pf < 0
meshTensor3(cs, n, pf) ==
    LET pad == [i \in 1..n |-> cs * Pow(Abs(pf), i)]
    IN  IF pf < 0 THEN Reverse(pad) ELSE pad

(***************************************************************************)
(* CasingProperties: derived quantities.  p is the record of casing        *)
(* parameters, m the record of mesh parameters.                            *)
(***************************************************************************)
\* twice the outer radius: 2*casing_b = casing_d + casing_t
casing_b2(p) == p.casing_d + p.casing_t

\* twice the inner radius: 2*casing_a = casing_d - casing_t
casing_a2(p) == p.casing_d - p.casing_t

casing_z(p) == <<-p.casing_l + p.casing_top, 0 + p.casing_top>>

(***************************************************************************)
(* CasingMesh: cell counts and width sequences.                            *)
(***************************************************************************)
\* np.ceil(casing_b/csx1 + 2)
ncx1(p, m) == CeilDiv(casing_b2(p), 2 * m.csx1) + 2

\* np.floor(log(csx2/csx1)/log(pfx1)): the largest n with csx1*pfx1^n <= csx2
RECURSIVE npadx1From(_, _)
npadx1From(m, n) ==
    IF m.csx1 * Pow(m.pfx1, n + 1) <= m.csx2 THEN npadx1From(m, n + 1) ELSE n

npadx1(m) == npadx1From(m, 0)

hx1a(p, m) == meshTensor2(m.csx1, ncx1(p, m))

hx1b(m) == meshTensor3(m.csx1, npadx1(m), m.pfx1)

\* dx1 = np.floor((sum(hx1a) + sum(hx1b))/csx2), a number of cells
dx1(p, m) == FloorDiv(SumSeq(hx1a(p, m)) + SumSeq(hx1b(m)), m.csx2)

\* hx1b *= (dx1*csx2 - sum(hx1a))/sum(hx1b); an empty hx1b stays empty
hx1bScaled(p, m) ==
    LET a == hx1a(p, m)
        b == hx1b(m)
    IN  [i \in 1..Len(b) |->
            Rat(b[i] * (dx1(p, m) * m.csx2 - SumSeq(a)), SumSeq(b))]

\* ncx2 = np.ceil((dx2 - dx1)/csx2): dx2 is a length in metres and dx1 a
\* number of cells; in units of 1/Scale metres dx2 - dx1 is dx2 - Scale*dx1
ncx2(p, m) == CeilDiv(m.dx2 - Scale * dx1(p, m), m.csx2)

hx2a(p, m) == meshTensor2(m.csx2, ncx2(p, m))

hx2b(m) == meshTensor3(m.csx2, m.npadx2, m.pfx2)

ToRat(s) == [i \in 1..Len(s) |-> Rat(s[i], 1)]

\* np.hstack([hx1a, hx1b, hx2a, hx2b])
hxValue(p, m) ==
    ToRat(hx1a(p, m)) \o hx1bScaled(p, m) \o ToRat(hx2a(p, m)) \o ToRat(hx2b(m))

\* the cells added below the end of the casing
CoreMargin == 10

\* mutant: the core count taken from casing_l alone
nczValueOfLength(p, m) == CeilDiv(p.casing_l, m.csz) + CoreMargin

\* np.int(np.ceil(-casing_z[0]/csz)) + 10
nczValue(p, m) == CeilDiv(-casing_z(p)[1], m.csz) + CoreMargin

\* meshTensor([(csz, npadzd, -pfz), (csz, ncz), (csz, npadzu, pfz)])
hzValue(m, n) ==
    meshTensor3(m.csz, m.npadzd, -m.pfz) \o meshTensor2(m.csz, n)
        \o meshTensor3(m.csz, m.npadzu, m.pfz)

\* the x0 of Mesh.CylMesh: [0, 0, -np.sum(hz[:npadzu+ncz-nza])]
meshOrigin(m, h, n) == <<0, 0, -SumSeq(PySlice(h, m.npadzu + n - m.nza))>>

meshValue(m, hxv, hzv, n) == [hx |-> hxv, hz |-> hzv, x0 |-> meshOrigin(m, hzv, n)]


(***************************************************************************)
(* The configurations explored.  A configuration is a pair of records: the *)
(* CasingProperties fields read by the mesh, and the CasingMesh fields.    *)
(***************************************************************************)
cpDefault == [casing_top |-> 0, casing_l |-> Scale, casing_d |-> 2, casing_t |-> 1]

cmDefault ==
    [csx1 |-> 1, csx2 |-> 4, pfx1 |-> 2, pfx2 |-> 2, dx2 |-> 4 * Scale, npadx2 |-> 1,
     csz |-> 1, nza |-> 10, pfz |-> 2, npadzu |-> 1, npadzd |-> 1]

\* casing_t < casing_d
CasingSizes == {<<2, 1>>, <<6, 1>>, <<5, 3>>}

\* configurations that vary the radial parameters
ConfigsX ==
    { <<[cpDefault EXCEPT !.casing_d = dt[1], !.casing_t = dt[2]],
        [cmDefault EXCEPT !.csx1 = c1, !.csx2 = c2, !.pfx1 = pf, !.dx2 = d2 * Scale,
                          !.npadx2 = np]>> :
        dt \in CasingSizes, c1 \in {1, 2}, c2 \in {2, 3, 4, 8}, pf \in {2, 3},
        d2 \in {2, 4}, np \in 0..MaxPad }

\* configurations that vary the vertical parameters
ConfigsZ ==
    { <<[cpDefault EXCEPT !.casing_top = top, !.casing_l = l * Scale],
        [cmDefault EXCEPT !.csz = cs, !.nza = na, !.npadzu = pu, !.npadzd = pd]>> :
        top \in {-Scale, 0, 2}, l \in 1..MaxLen, cs \in {1, 3}, na \in {0, 1, 10},
        pu \in 0..MaxPad, pd \in 0..MaxPad }

Configs == {c \in ConfigsX \cup ConfigsZ : c[2].csx1 <= c[2].csx2}

(***************************************************************************)
(* CasingMesh: the cached properties.  cache holds _hx, _ncz, _hz, _mesh   *)
(* (None until first computed); ret holds the value each property returned *)
(* at its latest read and first the value it returned at its first read.   *)
(***************************************************************************)
NoCache == [hx |-> None, ncz |-> None, hz |-> None, mesh |-> None]

\* mutant: the hx getter without the check of _hx, computing at every read
GetHxUncached(p, m, ch) == [ch EXCEPT !.hx = Some(hxValue(p, m))]

\* the hx getter: compute and store _hx when it is None
GetHx(p, m, ch) ==
    IF ch.hx = None THEN [ch EXCEPT !.hx = Some(hxValue(p, m))] ELSE ch

\* the ncz getter
GetNcz(p, m, ch) ==
    IF ch.ncz = None THEN [ch EXCEPT !.ncz = Some(nczValue(p, m))] ELSE ch

\* the hz getter, which reads self.ncz when it computes
GetHz(p, m, ch) ==
    IF ch.hz = None
    THEN LET c1 == GetNcz(p, m, ch)
         IN  [c1 EXCEPT !.hz = Some(hzValue(m, Val(c1.ncz)))]
    ELSE ch

\* the mesh getter, which reads self.hx, self.hz and self.ncz when it computes
GetMesh(p, m, ch) ==
    IF ch.mesh = None
    THEN LET c1 == GetHx(p, m, ch)
             c2 == GetHz(p, m, c1)
             c3 == GetNcz(p, m, c2)
         IN  [c3 EXCEPT !.mesh = Some(meshValue(m, Val(c3.hx), Val(c3.hz), Val(c3.ncz)))]
    ELSE ch

\* the properties a getter call returns a value of, itself and those it reads
Reads(attr, ch) ==
    CASE attr = "hx" -> {"hx"}
      [] attr = "ncz" -> {"ncz"}
      [] attr = "hz" -> IF ch.hz = None THEN {"hz", "ncz"} ELSE {"hz"}
      [] attr = "mesh" ->
            IF ch.mesh # None THEN {"mesh"}
            ELSE {"mesh", "hx", "hz"} \cup (IF ch.hz = None THEN {"ncz"} ELSE {})

Observe(attr, ch1) ==
    /\ ret' = [a \in DOMAIN ret |-> IF a \in Reads(attr, cache) THEN ch1[a] ELSE ret[a]]
    /\ first' = [a \in DOMAIN first |->
                    IF a \in Reads(attr, cache) /\ first[a] = None THEN ch1[a]
                    ELSE first[a]]

hx ==
    /\ cache' = GetHx(cp, cm, cache)
    /\ Observe("hx", cache')
    /\ UNCHANGED <<cp, cm, src, dgcache, sel, cur, out>>

ncz ==
    /\ cache' = GetNcz(cp, cm, cache)
    /\ Observe("ncz", cache')
    /\ UNCHANGED <<cp, cm, src, dgcache, sel, cur, out>>

hz ==
    /\ cache' = GetHz(cp, cm, cache)
    /\ Observe("hz", cache')
    /\ UNCHANGED <<cp, cm, src, dgcache, sel, cur, out>>

mesh ==
    /\ cache' = GetMesh(cp, cm, cache)
    /\ Observe("mesh", cache')
    /\ UNCHANGED <<cp, cm, src, dgcache, sel, cur, out>>

\* CasingMesh.__init__(cp): nothing is cached yet
InitMesh ==
    /\ \E c \in Configs : cp = c[1] /\ cm = c[2]
    /\ cache = NoCache
    /\ ret = NoCache
    /\ first = NoCache
    /\ src = None /\ dgcache = None /\ sel = None
    /\ cur = None /\ out = None

NextMesh == hx \/ ncz \/ hz \/ mesh

\* the grid builder on a configuration that is never assigned to
SpecMesh == InitMesh /\ [][NextMesh]_vars


(***************************************************************************)
(* Claims about CasingMesh on a configuration that is never assigned to    *)
(* (SpecMesh).                                                             *)
(***************************************************************************)
\* the casing-bottom depth below the surface, casing_l - casing_top
BottomDepth == cp.casing_l - cp.casing_top

\* C2 (as amended): the core count ncz is ceil((casing_l - casing_top)/csz) + 10,
\* the least n with (n - 10)*csz >= casing_l - casing_top: it follows the depth
\* of the casing bottom, so it depends on casing_top as well as casing_l and csz.
C2_NczCoversBottomDepth ==
    cache.ncz # None =>
        LET n == Val(cache.ncz) - 10
        IN  /\ n * cm.csz >= BottomDepth
            /\ (n - 1) * cm.csz < BottomDepth

\* C2 witness: ncz has been computed for a casing whose top is not at the
\* surface, and it differs from ceil(casing_l/csz) + 10.
C2_Witness ==
    /\ cache.ncz # None
    /\ cp.casing_top # 0
    /\ Val(cache.ncz) # CeilDiv(cp.casing_l, cm.csz) + 10

\* C2 (as claimed): ncz is ceil(casing_l/csz) + 10 whatever casing_top is.
C2_NczIndependentOfTop ==
    cache.ncz # None =>
        LET n == Val(cache.ncz) - 10
        IN  /\ n * cm.csz >= cp.casing_l
            /\ (n - 1) * cm.csz < cp.casing_l

\* the vertical position of node k of the mesh (k cells above the lowest node)
NodeZ(msh, k) == msh.x0[3] + SumSeq(SubSeq(msh.hz, 1, k))

\* C3 (as claimed): with nza <= ncz, depth z = 0 is the node nza cells below the
\* boundary between the core and the upward padding, i.e. node npadzd + ncz - nza.
C3_SurfaceNzaBelowCoreTop ==
    (cache.mesh # None /\ cm.nza <= Val(cache.ncz)) =>
        NodeZ(Val(cache.mesh), cm.npadzd + Val(cache.ncz) - cm.nza) = 0

\* the number of cells of hx in regions 1 and 2
nInner(p, m) == ncx1(p, m) + npadx1(m)

\* C4 (as claimed): the widths of regions 1 and 2 of hx sum to exactly
\* floor(S/csx2)*csx2, S their sum before rescaling, so that the coarse-uniform
\* region starts on a multiple of csx2.
C4_CoarseStartsOnMultiple ==
    cache.hx # None =>
        RatEq(RatSum(SubSeq(Val(cache.hx), 1, nInner(cp, cm))),
              Rat(FloorDiv(SumSeq(hx1a(cp, cm)) + SumSeq(hx1b(cm)), cm.csx2) * cm.csx2, 1))

\* C5 (as claimed): the radial extent at the end of the coarse-uniform region is
\* at least dx2.
C5_CoarseReachesDx2 ==
    cache.hx # None =>
        RatLeq(Rat(cm.dx2, 1),
               RatSum(SubSeq(Val(cache.hx), 1, Len(Val(cache.hx)) - cm.npadx2)))

\* C6 (as claimed): every width of hx is strictly positive.
C6_WidthsPositive ==
    cache.hx # None =>
        \A i \in 1..Len(Val(cache.hx)) : RatLess(Rat(0, 1), Val(cache.hx)[i])

\* C7 (as claimed): the core region of hz contains the casing interval casing_z
\* and reaches at least 10 cells of width csz below the casing bottom.
C7_CoreContainsCasingWithMargin ==
    cache.mesh # None =>
        LET msh == Val(cache.mesh)
            coreBottom == NodeZ(msh, cm.npadzd)
            coreTop == NodeZ(msh, cm.npadzd + Val(cache.ncz))
        IN  /\ coreBottom + 10 * cm.csz <= casing_z(cp)[1]
            /\ casing_z(cp)[2] <= coreTop


(***************************************************************************)
(* CasingMesh on a configuration that is assigned to between reads         *)
(* (SpecCache).  The parameters are properties.Float / properties.Integer  *)
(* attributes: an assignment stores the value and touches no cached        *)
(* attribute.                                                              *)
(***************************************************************************)
\* the values an assignment may store, per mesh parameter
MeshAssignable ==
    [csx1 |-> {1, 2}, csz |-> {1, 2}, npadzu |-> {1, MaxPad}]

\* cm.<k> = v
SetMeshParam ==
    /\ \E k \in DOMAIN MeshAssignable : \E v \in MeshAssignable[k] :
          cm' = [cm EXCEPT ![k] = v]
    /\ UNCHANGED <<cp, cache, ret, first, src, dgcache, sel, cur, out>>

\* cp.casing_l = v
SetCasingParam ==
    /\ \E l \in 1..MaxLen : cp' = [cp EXCEPT !.casing_l = l * Scale]
    /\ UNCHANGED <<cm, cache, ret, first, src, dgcache, sel, cur, out>>

InitCache ==
    /\ cp = cpDefault
    /\ cm = cmDefault
    /\ cache = NoCache
    /\ ret = NoCache
    /\ first = NoCache
    /\ src = None /\ dgcache = None /\ sel = None
    /\ cur = None /\ out = None

NextCache == hx \/ ncz \/ hz \/ mesh \/ SetMeshParam \/ SetCasingParam

SpecCache == InitCache /\ [][NextCache]_vars

\* C9: once hx, hz, ncz or mesh has been read, every later read of it returns
\* the value its first read returned, whatever has been assigned in between.
C9_ReadsReturnFirstValue ==
    \A a \in DOMAIN first : first[a] # None => ret[a] = first[a]

\* C9 witness: hx, ncz and hz have been read, and the configuration has since
\* been assigned to, so that a fresh computation of each would now give another
\* value than the one read.
C9_Witness ==
    /\ ret.hx # None /\ Val(ret.hx) # hxValue(cp, cm)
    /\ ret.ncz # None /\ Val(ret.ncz) # nczValue(cp, cm)
    /\ ret.hz # None /\ Val(ret.hz) # hzValue(cm, nczValue(cp, cm))
    /\ ret.mesh # None


(***************************************************************************)
(* The face grids of the cylindrically symmetric Mesh.CylMesh handed to    *)
(* DownHoleCasingSrc.  msh = [hx, hz, x0] with integer widths.  Cell       *)
(* centres fall on half widths, so every coordinate is kept doubled: r2 is *)
(* twice a radius and z2 twice a vertical position.                        *)
(***************************************************************************)
RECURSIVE MinSeq(_)
MinSeq(s) == IF Len(s) = 1 THEN s[1] ELSE Min(Head(s), MinSeq(Tail(s)))

\* twice the radius of the outer node of radial cell i (node 0 is the axis)
vectorNx2(msh, i) == 2 * SumSeq(SubSeq(msh.hx, 1, i))

\* twice the radius of the centre of radial cell i
vectorCCx2(msh, i) == vectorNx2(msh, i - 1) + msh.hx[i]

\* twice the vertical position of node k, k = 0 the lowest
vectorNz2(msh, k) == 2 * (msh.x0[3] + SumSeq(SubSeq(msh.hz, 1, k)))

\* twice the vertical position of the centre of vertical cell k
vectorCCz2(msh, k) == vectorNz2(msh, k - 1) + msh.hz[k]

\* the x-faces <<i, k>>: the outer face of radial cell i in vertical cell k
\* (a symmetric CylMesh has no x-face on the axis)
FacesX(msh) == (1..Len(msh.hx)) \X (1..Len(msh.hz))

\* the z-faces <<i, k>>: radial cell i at vertical node k
FacesZ(msh) == (1..Len(msh.hx)) \X (0..Len(msh.hz))

\* mesh.gridFx[f] = (r, z), doubled
gridFx2(msh, f) == <<vectorNx2(msh, f[1]), vectorCCz2(msh, f[2])>>

\* mesh.gridFz[f] = (r, z), doubled
gridFz2(msh, f) == <<vectorCCx2(msh, f[1]), vectorNz2(msh, f[2])>>

\* mesh.area of an x-face, 2*pi*r*hz, in units of pi/4
areaFx4(msh, f) == 4 * vectorNx2(msh, f[1]) * msh.hz[f[2]]

\* mesh.area of a z-face, pi*(r_outer^2 - r_inner^2), in units of pi/4
areaFz4(msh, f) ==
    vectorNx2(msh, f[1]) * vectorNx2(msh, f[1])
        - vectorNx2(msh, f[1] - 1) * vectorNx2(msh, f[1] - 1)

(***************************************************************************)
(* DownHoleCasingSrc.  s = [mesh, src_a, src_b, casing_a2, freqs], where   *)
(* src_a and src_b are <<x, y, z>> and casing_a2 is twice casing_a.        *)
(***************************************************************************)
\* vertically directed wire in the borehole
dgv_ind(s) ==
    { f \in FacesZ(s.mesh) :
        /\ gridFz2(s.mesh, f)[1] < 2 * MinSeq(s.mesh.hx)
        /\ gridFz2(s.mesh, f)[2] >= 2 * s.src_a[3]
        /\ gridFz2(s.mesh, f)[2] <= 2 * (s.src_b[3] + 2 * MinSeq(s.mesh.hz)) }

\* mutant: the coupling faces taken within one cell above the source depth
dgh_ind2Above(s) ==
    { f \in FacesX(s.mesh) :
        /\ gridFx2(s.mesh, f)[1] <= s.casing_a2
        /\ gridFx2(s.mesh, f)[2] >= 2 * s.src_a[3]
        /\ gridFx2(s.mesh, f)[2] < 2 * (s.src_a[3] + MinSeq(s.mesh.hz)) }

\* couple to the casing downhole
dgh_ind2(s) ==
    { f \in FacesX(s.mesh) :
        /\ gridFx2(s.mesh, f)[1] <= s.casing_a2
        /\ gridFx2(s.mesh, f)[2] <= 2 * s.src_a[3]
        /\ gridFx2(s.mesh, f)[2] > 2 * (s.src_a[3] - MinSeq(s.mesh.hz)) }

\* horizontally directed wire
sgh_ind(s) ==
    { f \in FacesX(s.mesh) :
        /\ gridFx2(s.mesh, f)[1] <= 2 * s.src_b[1]
        /\ gridFx2(s.mesh, f)[2] > 2 * MinSeq(s.mesh.hz)
        /\ gridFx2(s.mesh, f)[2] < 2 * (2 * MinSeq(s.mesh.hz)) }

\* return electrode: src_b[0]*0.9 < r < src_b[0]*1.1
sgv_ind(s) ==
    { f \in FacesZ(s.mesh) :
        /\ 10 * gridFz2(s.mesh, f)[1] > 9 * (2 * s.src_b[1])
        /\ 10 * gridFz2(s.mesh, f)[1] < 11 * (2 * s.src_b[1])
        /\ gridFz2(s.mesh, f)[2] >= -(2 * MinSeq(s.mesh.hz))
        /\ gridFz2(s.mesh, f)[2] < 2 * (2 * MinSeq(s.mesh.hz)) }

\* dg_x: zeros, then dg_x[dgh_ind2] = 1., then dg_x[sgh_ind] = -1.
dg_x(s) ==
    [f \in FacesX(s.mesh) |->
        IF f \in sgh_ind(s) THEN -1 ELSE IF f \in dgh_ind2(s) THEN 1 ELSE 0]

\* mutant: the return electrode given the sign of the borehole wire
dg_zAllDown(s) ==
    [f \in FacesZ(s.mesh) |->
        IF f \in sgv_ind(s) THEN -1 ELSE IF f \in dgv_ind(s) THEN -1 ELSE 0]

\* dg_z: zeros, then dg_z[dgv_ind] = -1., then dg_z[sgv_ind] = 1.
dg_z(s) ==
    [f \in FacesZ(s.mesh) |->
        IF f \in sgv_ind(s) THEN 1 ELSE IF f \in dgv_ind(s) THEN -1 ELSE 0]

\* dg/self.mesh.area: np.hstack([dg_x, dg_y, dg_z]) over the face areas; a
\* symmetric CylMesh has no y-faces (vnF[1] = 0), so dg_y is empty
dgOverArea(s) ==
    [x |-> [f \in FacesX(s.mesh) |-> Rat(dg_x(s)[f], areaFx4(s.mesh, f))],
     y |-> <<>>,
     z |-> [f \in FacesZ(s.mesh) |-> Rat(dg_z(s)[f], areaFz4(s.mesh, f))]]

\* [FDEM.Src.RawVec_e([], _, dg/self.mesh.area) for _ in self.freqs]
dg_pValue(s) ==
    [i \in 1..Len(s.freqs) |-> [freq |-> s.freqs[i], s_e |-> dgOverArea(s)]]

\* the dg_p getter; sel records the four masks it read when it assembled dg
dg_p ==
    /\ IF dgcache = None
       THEN /\ dgcache' = Some(dg_pValue(src))
            /\ sel' = Some([dgv_ind |-> dgv_ind(src), dgh_ind2 |-> dgh_ind2(src),
                            sgh_ind |-> sgh_ind(src), sgv_ind |-> sgv_ind(src)])
       ELSE UNCHANGED <<dgcache, sel>>
    /\ UNCHANGED <<cp, cm, cache, ret, first, src, cur, out>>

\* the meshes DownHoleCasingSrc is built on
SrcMeshes ==
    { [hx |-> h, hz |-> v, x0 |-> <<0, 0, -z>>] :
        h \in {<<1, 1, 2>>, <<2, 1, 3>>, <<2, 2, 4>>}, v \in {<<2, 1, 1, 1, 2>>, <<2, 2, 2, 2>>},
        z \in {4, 5} }

\* DownHoleCasingSrc.__init__(mesh, src_a, src_b, casing_a, freqs)
InitSrc ==
    /\ \E m \in SrcMeshes, dsz \in {-3, -2, -1, 0, 3}, bx \in {1, 3}, bz \in {-1, 0},
          a2 \in {1, 3, 4}, fr \in {<<1>>, <<1, 5>>} :
          src = [mesh |-> m, src_a |-> <<0, 0, dsz>>, src_b |-> <<bx, 0, bz>>,
                 casing_a2 |-> a2, freqs |-> fr]
    /\ dgcache = None
    /\ sel = None
    /\ cp = None /\ cm = None /\ cache = None /\ ret = None /\ first = None
    /\ cur = None /\ out = None

NextSrc == dg_p

SpecSrc == InitSrc /\ [][NextSrc]_vars


(***************************************************************************)
(* Claims about DownHoleCasingSrc (SpecSrc).                               *)
(***************************************************************************)
RECURSIVE SumOver(_, _)
SumOver(f, S) ==
    IF S = {} THEN 0
    ELSE LET x == CHOOSE y \in S : TRUE
         IN  f[x].n + SumOver(f, S \ {x})

\* the sum of the signed unit injections of one source vector: the numerators
\* of its entries, i.e. the entries before the division by the face areas
UnitSum(e) == SumOver(e.x, DOMAIN e.x) + SumOver(e.z, DOMAIN e.z)

\* C1 (as amended): the unit-injection vector is -1 on the borehole faces that
\* are not return-electrode faces and on the near-surface horizontal faces, +1
\* on the return-electrode faces and on the coupling faces that are not
\* near-surface horizontal faces, and 0 elsewhere, so that it sums to
\* |dgh_ind2 \ sgh_ind| + |sgv_ind| - |sgh_ind| - |dgv_ind \ sgv_ind|, which is
\* zero only when these face counts balance; the vector of every frequency is
\* this same vector.
C1_UnitSumIsFaceCountBalance ==
    dgcache # None =>
        \A i \in 1..Len(Val(dgcache)) :
            LET e == Val(dgcache)[i].s_e
                m == Val(sel)
            IN  /\ UnitSum(e) =
                      Cardinality(m.dgh_ind2 \ m.sgh_ind) + Cardinality(m.sgv_ind)
                        - Cardinality(m.sgh_ind) - Cardinality(m.dgv_ind \ m.sgv_ind)
                /\ \A f \in DOMAIN e.x \cup DOMAIN e.z :
                      /\ f \in DOMAIN e.x => e.x[f].n \in {-1, 0, 1}
                      /\ f \in DOMAIN e.z => e.z[f].n \in {-1, 0, 1}
                /\ e = Val(dgcache)[1].s_e

\* C1 witness: the source vectors of two frequencies have been assembled with
\* all four face selections non-empty, and their unit injections do not sum to
\* zero.
C1_Witness ==
    /\ dgcache # None
    /\ Len(Val(dgcache)) = 2
    /\ \A k \in DOMAIN Val(sel) : Val(sel)[k] # {}
    /\ UnitSum(Val(dgcache)[2].s_e) # 0

\* C1 (as claimed): the unit injections of every frequency's vector sum to zero.
C1_UnitSumIsZero ==
    dgcache # None =>
        \A i \in 1..Len(Val(dgcache)) : UnitSum(Val(dgcache)[i].s_e) = 0

\* C10 (as amended): dgh_ind2 selects exactly the x-faces whose radius is at or
\* inside casing_a and whose vertical coordinate lies within one minimum
\* vertical cell width at or below the source depth,
\* src_a[2] - min(hz) < z <= src_a[2]; no selected face lies above the source
\* depth.
C10_CouplingAtOrBelowSource ==
    sel # None =>
        \A f \in FacesX(src.mesh) :
            f \in Val(sel).dgh_ind2 <=>
                /\ vectorNx2(src.mesh, f[1]) <= src.casing_a2
                /\ vectorCCz2(src.mesh, f[2]) <= 2 * src.src_a[3]
                /\ 2 * src.src_a[3] - vectorCCz2(src.mesh, f[2]) < 2 * MinSeq(src.mesh.hz)

\* C10 witness: a selected coupling face lies strictly below the source depth.
C10_Witness ==
    /\ sel # None
    /\ \E f \in Val(sel).dgh_ind2 : vectorCCz2(src.mesh, f[2]) < 2 * src.src_a[3]

\* C10 (as claimed): dgh_ind2 selects exactly the x-faces at or inside casing_a
\* with src_a[2] <= z < src_a[2] + min(hz).
C10_CouplingAboveSource ==
    sel # None =>
        \A f \in FacesX(src.mesh) :
            f \in Val(sel).dgh_ind2 <=>
                /\ vectorNx2(src.mesh, f[1]) <= src.casing_a2
                /\ vectorCCz2(src.mesh, f[2]) >= 2 * src.src_a[3]
                /\ vectorCCz2(src.mesh, f[2]) - 2 * src.src_a[3] < 2 * MinSeq(src.mesh.hz)


(***************************************************************************)
(* CasingCurrents(cp, fields, mesh, sigma_m, indActive, casingMap).        *)
(* c = [cp, fields, mesh, sigma_m, indActive, casingMap, axisW4]:          *)
(*   sigma_m    the model vector, a sequence (Python index i is i + 1);    *)
(*   indActive  the set of active cells <<i, k>>;                          *)
(*   casingMap  the mapping from the model vector to the active cells: the *)
(*              cell <<i, k>> takes the entry casingMap[<<i, k>>];         *)
(*   fields     [base]: fields[mur][:, 'j'] on face f for frequency index  *)
(*              q is FieldJ(c, u, q, f), a non-zero integer;               *)
(*   axisW4     the weight, in quarters, that mesh.aveF2CC gives the one   *)
(*              x-face of a cell on the axis.                              *)
(* Face indicator values are kept in quarters: 1 is 0.25.                  *)
(***************************************************************************)
Cells(msh) == (1..Len(msh.hx)) \X (1..Len(msh.hz))

\* mutant: the 1 written to index 3 and the 0 to indices 0, 1, 2
casing_indOnLast(c) ==
    [[c.sigma_m EXCEPT ![1] = 0, ![2] = 0, ![3] = 0] EXCEPT ![4] = 1]

\* casing_ind = sigma_m.copy(); casing_ind[[0, 1, 3]] = 0.; casing_ind[2] = 1.
casing_ind(c) ==
    [[c.sigma_m EXCEPT ![1] = 0, ![2] = 0, ![4] = 0] EXCEPT ![3] = 1]

\* indCasing = actMap_Zeros * casingMap * casing_ind: the mapped value on an
\* active cell, 0. on an inactive one
indCasing(c) ==
    [x \in Cells(c.mesh) |->
        IF x \in c.indActive THEN casing_ind(c)[c.casingMap[x]] ELSE 0]

\* the indicator of a cell, 0 outside the mesh
IndAt(c, x) == IF x \in Cells(c.mesh) THEN indCasing(c)[x] ELSE 0

\* mesh.aveF2CC.T * indCasing on an x-face, in quarters: each adjacent cell
\* weighs 0.25, a cell on the axis axisW4 quarters
aveFx4(c, f) ==
    (IF f[1] = 1 THEN c.axisW4 ELSE 1) * IndAt(c, f) + IndAt(c, <<f[1] + 1, f[2]>>)

\* mesh.aveF2CC.T * indCasing on a z-face, in quarters
aveFz4(c, f) == IndAt(c, f) + IndAt(c, <<f[1], f[2] + 1>>)

\* mutant: the threshold zeroing the values up to and including 0.25
Threshold4Strict(v) == IF v <= 1 THEN 0 ELSE v

\* casing_faces[casing_faces < 0.25] = 0
Threshold4(v) == IF v < 1 THEN 0 ELSE v

casing_facesX(c) == [f \in FacesX(c.mesh) |-> Threshold4(aveFx4(c, f))]

casing_facesZ(c) == [f \in FacesZ(c.mesh) |-> Threshold4(aveFz4(c, f))]

\* fields[mur][:, 'j'] on face f (kind "x" or "z") for frequency index q
FieldJ(c, u, q, kind, f) ==
    c.fields.base + u + 2 * q + f[1] + 3 * f[2] + (IF kind = "z" THEN 1 ELSE 0)

\* jACasing = sdiag(casing_faces) * sdiag(mesh.area) * j on the x-faces
jACasingX(c, u, q) ==
    [f \in FacesX(c.mesh) |->
        casing_facesX(c)[f] * (areaFx4(c.mesh, f) * FieldJ(c, u, q, "x", f))]

\* jACasing on the z-faces
jACasingZ(c, u, q) ==
    [f \in FacesZ(c.mesh) |->
        casing_facesZ(c)[f] * (areaFz4(c.mesh, f) * FieldJ(c, u, q, "z", f))]

RECURSIVE SumRadial(_, _, _)
SumRadial(g, k, i) == IF i = 0 THEN 0 ELSE g[<<i, k>>] + SumRadial(g, k, i - 1)

\* jxCasing.sum(0): per vertical index, the sum over the radial index
ixCasingOf(c, u, q) ==
    [k \in 1..Len(c.mesh.hz) |-> SumRadial(jACasingX(c, u, q), k, Len(c.mesh.hx))]

\* jzCasing.sum(0)
izCasingOf(c, u, q) ==
    [k \in 0..Len(c.mesh.hz) |-> SumRadial(jACasingZ(c, u, q), k, Len(c.mesh.hx))]

\* the value CasingCurrents returns: IxCasing[mur] and IzCasing[mur] are the
\* lists over the frequencies; no path of the function raises
CasingCurrentsValue(c) ==
    [kind |-> "returned",
     IxCasing |-> [u \in 1..Len(c.cp.muModels) |->
                      [q \in 1..Len(c.cp.freqs) |-> ixCasingOf(c, u, q)]],
     IzCasing |-> [u \in 1..Len(c.cp.muModels) |->
                      [q \in 1..Len(c.cp.freqs) |-> izCasingOf(c, u, q)]]]

\* the caller's sigma_m after the call: casing_ind is sigma_m.copy(), so the
\* assignments to casing_ind do not reach sigma_m
sigma_mAfter(c) == c.sigma_m

\* a call of CasingCurrents: the other arguments are only read
CasingCurrents ==
    /\ out = None
    /\ out' = Some(CasingCurrentsValue(cur))
    /\ cur' = [cur EXCEPT !.sigma_m = sigma_mAfter(cur)]
    /\ UNCHANGED <<cp, cm, cache, ret, first, src, dgcache, sel>>

CurMesh == [hx |-> <<1, 1>>, hz |-> <<1, 2>>, x0 |-> <<0, 0, -2>>]

\* the arguments of the call
InitCur ==
    /\ \E sm \in {<<1, 2, 3, 4>>, <<0, 0, 1, 0>>, <<5, 5, 0, 1>>},
          act \in {Cells(CurMesh), Cells(CurMesh) \ {<<2, 2>>}},
          cmap \in [Cells(CurMesh) -> 1..4],
          w \in {1, 2}, b \in {1, 2} :
          cur = [cp |-> [muModels |-> <<1, 50>>, freqs |-> <<1, 10>>],
                 fields |-> [base |-> b], mesh |-> CurMesh, sigma_m |-> sm,
                 indActive |-> act, casingMap |-> cmap, axisW4 |-> w]
    /\ out = None
    /\ cp = None /\ cm = None /\ cache = None /\ ret = None /\ first = None
    /\ src = None /\ dgcache = None /\ sel = None

NextCur == CasingCurrents

SpecCur == InitCur /\ [][NextCur]_vars

(***************************************************************************)
(* Claims about CasingCurrents (SpecCur).                                  *)
(***************************************************************************)
\* the thresholded face indicator selects no face
NoFaceSelected(c) ==
    /\ \A f \in FacesX(c.mesh) : casing_facesX(c)[f] = 0
    /\ \A f \in FacesZ(c.mesh) : casing_facesZ(c)[f] = 0

\* C8 (as claimed): when the thresholded face indicator selects no face, the
\* call fails with an empty-casing-selection error and returns no profile.
C8_EmptySelectionFails ==
    (out # None /\ NoFaceSelected(cur)) => Val(out).kind = "EmptySelectionError"


\* what a face whose averaged indicator is a4 quarters adds to the summed
\* current when the faces that count are those of at least min4 quarters: its
\* area times its field value, weighted by the averaged indicator
Contribution(a4, min4, area4, jf) == IF a4 >= min4 THEN a4 * (area4 * jf) ELSE 0

RECURSIVE RowX(_, _, _, _, _, _)
RowX(c, u, q, k, i, min4) ==
    IF i = 0 THEN 0
    ELSE Contribution(aveFx4(c, <<i, k>>), min4, areaFx4(c.mesh, <<i, k>>),
                      FieldJ(c, u, q, "x", <<i, k>>))
            + RowX(c, u, q, k, i - 1, min4)

RECURSIVE RowZ(_, _, _, _, _, _)
RowZ(c, u, q, k, i, min4) ==
    IF i = 0 THEN 0
    ELSE Contribution(aveFz4(c, <<i, k>>), min4, areaFz4(c.mesh, <<i, k>>),
                      FieldJ(c, u, q, "z", <<i, k>>))
            + RowZ(c, u, q, k, i - 1, min4)

\* the returned profile is the one in which exactly the faces of at least min4
\* quarters contribute, for every permeability and frequency
ProfileCounts(min4) ==
    \A u \in 1..Len(cur.cp.muModels) : \A q \in 1..Len(cur.cp.freqs) :
        /\ \A k \in 1..Len(cur.mesh.hz) :
              Val(out).IxCasing[u][q][k] = RowX(cur, u, q, k, Len(cur.mesh.hx), min4)
        /\ \A k \in 0..Len(cur.mesh.hz) :
              Val(out).IzCasing[u][q][k] = RowZ(cur, u, q, k, Len(cur.mesh.hx), min4)

\* C11 (as amended): a face counts as inside the casing, and contributes to
\* IxCasing or IzCasing, exactly if its averaged cell indicator is at least
\* 0.25: a face below 0.25 is zeroed and contributes nothing, a face at exactly
\* 0.25 is kept and contributes, for every permeability and frequency.
C11_FacesFromQuarterContribute == out # None => ProfileCounts(1)

\* C11 witness: a profile has been returned for a grid with an x-face whose
\* averaged indicator is exactly 0.25, the only face of its row that is not 0,
\* and the summed current of that row is not zero.
C11_Witness ==
    /\ out # None
    /\ \E f \in FacesX(cur.mesh) :
          /\ aveFx4(cur, f) = 1
          /\ \A g \in FacesX(cur.mesh) : (g[2] = f[2] /\ g # f) => aveFx4(cur, g) = 0
          /\ Val(out).IxCasing[1][1][f[2]] # 0

\* C11 (as claimed): only the faces whose averaged indicator strictly exceeds
\* 0.25 contribute; a face at exactly 0.25 contributes nothing.
C11_OnlyFacesAboveQuarterContribute == out # None => ProfileCounts(2)


\* a call of CasingCurrents has just returned
Returns == out = None /\ out' # None

\* the indicator built from sigma_m is 1 on the entry of Python index py and 0
\* on the other three of the indices 0..3, and so is the cell indicator: 1 on
\* the active cells mapped to that entry, 0 on every other cell
IndicatorOn(c, py) ==
    /\ \A i \in 1..4 : casing_ind(c)[i] = (IF i = py + 1 THEN 1 ELSE 0)
    /\ \A x \in Cells(c.mesh) :
          indCasing(c)[x] = (IF x \in c.indActive /\ c.casingMap[x] = py + 1 THEN 1 ELSE 0)

\* C12 (as amended): from the model vector CasingCurrents builds a binary
\* indicator that is 1 exactly on index 2, the entry the code takes for the
\* casing, and 0 on indices 0, 1 and 3, whatever the input values are, and the
\* call leaves the caller's sigma_m as it was.
C12_IndicatorOnIndexTwo ==
    [][Returns => (IndicatorOn(cur, 2) /\ cur'.sigma_m = cur.sigma_m)]_vars

\* C12 witness: a profile has been returned for a sigma_m that is not itself the
\* indicator, with an active cell mapped to index 2 (indicator 1) and an active
\* cell mapped to index 3 (indicator 0).
C12_Witness ==
    /\ out # None
    /\ cur.sigma_m = <<1, 2, 3, 4>>
    /\ \E x, y \in cur.indActive :
          /\ cur.casingMap[x] = 3 /\ indCasing(cur)[x] = 1
          /\ cur.casingMap[y] = 4 /\ indCasing(cur)[y] = 0

\* C12 (as claimed): the indicator is 1 exactly on index 3 and 0 on indices 0,
\* 1 and 2, and sigma_m is not modified.
C12_IndicatorOnIndexThree ==
    [][Returns => (IndicatorOn(cur, 3) /\ cur'.sigma_m = cur.sigma_m)]_vars

=============================================================================
